---- MODULE Spec2Model ----
(***************************************************************************)
(* A model of the AgentX Streamlit pages:                                  *)
(*   - the Agent MarketPlace page (pages/5_Agent_MarketPlace.py): the      *)
(*     per-session process registry and its Run / Stop handlers;           *)
(*   - the Agent Builder page (pages/2_Build_Agent.py) and the Multi-Agent *)
(*     page (pages/4_Multi_Agent_System.py): generate, auto-launch, save;  *)
(*   - the Code Extractor extract_code (agents/Visualisation.py);          *)
(*   - the Sandboxed Executor in its three variants: run_generated_code    *)
(*     (agents/Visualisation.py), the Generate & Run handler               *)
(*     (agents/SupabaseConnector.py) and the Generate Workflow Diagram     *)
(*     handler (pages/1_Workflow_Planner.py);                              *)
(*   - sanitize_filename of the two pages that have one.                   *)
(*                                                                         *)
(* Text is a sequence of tokens.  The token FENCE stands for three         *)
(* consecutive backticks, LANG for the language tag python, SP for a       *)
(* blank, NL for a line break and X for any other character; no token      *)
(* other than FENCE contains a backtick.                                   *)
(***************************************************************************)
EXTENDS Naturals, Integers, Sequences, FiniteSets, TLC

VARIABLES
    \* ---- Code Extractor (agents/Visualisation.py)
    text,        \* the raw model text handed to extract_code
    code,        \* what extract_code returned, or NotRun
    xpc,         \* "input" before the call, "done" after it
    \* ---- Agent MarketPlace (pages/5_Agent_MarketPlace.py)
    platform,         \* sys.platform of the host: "linux", "darwin" or "win32"
    agent_processes,  \* st.session_state.agent_processes: agent name -> entry
    procs,            \* the OS process table: pid -> process record
    hostSignalled,    \* a signal was sent to the process group of the host itself
    ui,               \* the last button handled and the messages it rendered
    rerun,            \* parity of the number of script runs that handled a button
    \* ---- Agent Builder and Multi-Agent pages (pages/2_Build_Agent.py, 4_Multi_Agent_System.py)
    fs,               \* the files of the working directory: path -> content or Absent
    generated_code,   \* st.session_state["generated_code"], or Unset
    agent_saved,      \* st.session_state["agent_saved"]
    agent_saved_path, \* st.session_state["agent_saved_path"]: the stem saved, <<>> for ""
    agent_save_error, \* st.session_state["agent_save_error"]
    form,             \* the Save form of the last script run: its callback's code_to_save, or NoForm
    spc,              \* position of _save_agent_callback: "idle", "write" or "replace"
    calls,            \* script runs so far in which a Generate button was handled
    \* ---- sanitize_filename (pages/2_Build_Agent.py, pages/4_Multi_Agent_System.py)
    san_name,         \* the name handed to sanitize_filename
    san_result,       \* what it returned, or NotSanitized
    san_page,         \* the page whose sanitize_filename is called: "build" or "multi"
    \* ---- Sandboxed Executor (agents/Visualisation.py, agents/SupabaseConnector.py,
    \*      pages/1_Workflow_Planner.py)
    snippet,          \* the lines of the model's code the last handler run was given
    exec_globals,     \* the globals mapping of the last exec, as the snippet left it
    exec_locals,      \* the locals mapping of the last exec, as the snippet left it
    run,              \* the last handler run: what exec did and what was rendered
    earlier,          \* the names snippets of earlier runs of this session bound
    \* ---- the gates of Generate & Run (agents/SupabaseConnector.py)
    gates,            \* client, session connection, acknowledgement and request text
    asked,            \* the last handler run called the model
    \* ---- the inline Code Extractor variants (pages/1, 2 and 4)
    inline,           \* what each inline variant made of text, or NotRun
    \* ---- the model calls (agents/agent.py, pages/2_Build_Agent.py, 1_Workflow_Planner.py)
    upstream,         \* the last model call and what each page rendered per failure mode
    \* ---- the agent lists (pages/4_Multi_Agent_System.py, 5_Agent_MarketPlace.py)
    entries,          \* the entries of the working directory's agent directories
    listed            \* the list the page's last script run built, or NotListed

extractVars == <<text, code, xpc>>
marketVars == <<platform, agent_processes, procs, hostSignalled>>
uiVars == <<ui, rerun>>
buildVars == <<fs, generated_code, agent_saved, agent_saved_path, agent_save_error, form, spc,
               calls>>
sanVars == <<san_name, san_result, san_page>>
execVars == <<snippet, exec_globals, exec_locals, run, earlier>>
gateVars == <<gates, asked>>
variantVars == <<inline>>
callVars == <<upstream>>
listVars == <<entries, listed>>
vars == <<text, code, xpc, platform, agent_processes, procs, hostSignalled, ui, rerun,
          fs, generated_code, agent_saved, agent_saved_path, agent_save_error, form, spc,
          calls, san_name, san_result, san_page, snippet, exec_globals, exec_locals, run, earlier,
          gates, asked, inline, upstream, entries, listed>>

-----------------------------------------------------------------------------
(* Bounds *)

MaxLines == 3        \* lines of a raw model text
MaxCalls == 1        \* Generate presses of one session
MaxPid == 2          \* processes the operating system hands out

-----------------------------------------------------------------------------
(* Text primitives: str.strip, str.startswith, str.splitlines, str.join *)

FENCE == "[fence]"
LANG  == "python"
SP    == " "
NL    == "\n"
X     == "x"

NotRun == "not-run"

\* the characters str.strip removes
Whitespace == { SP, NL }

RECURSIVE lstrip(_)
lstrip(s) ==
    IF s # <<>> /\ Head(s) \in Whitespace THEN lstrip(Tail(s)) ELSE s

RECURSIVE rstrip(_)
rstrip(s) ==
    IF s # <<>> /\ s[Len(s)] \in Whitespace THEN rstrip(SubSeq(s, 1, Len(s) - 1)) ELSE s

strip(s) == rstrip(lstrip(s))

startswith(s, p) ==
    Len(s) >= Len(p) /\ SubSeq(s, 1, Len(p)) = p

\* index of the first line break of s, 0 when there is none
FirstNL(s) ==
    IF \E i \in 1..Len(s) : s[i] = NL
    THEN CHOOSE i \in 1..Len(s) : s[i] = NL /\ \A j \in 1..(i - 1) : s[j] # NL
    ELSE 0

\* str.splitlines(): "" gives [], a final line break opens no further line
RECURSIVE splitlines(_)
splitlines(s) ==
    IF s = <<>> THEN <<>>
    ELSE LET i == FirstNL(s) IN
         IF i = 0 THEN <<s>>
         ELSE <<SubSeq(s, 1, i - 1)>> \o splitlines(SubSeq(s, i + 1, Len(s)))

\* "\n".join(lines)
RECURSIVE join(_)
join(ls) ==
    IF ls = <<>> THEN <<>>
    ELSE IF Len(ls) = 1 THEN ls[1]
    ELSE ls[1] \o <<NL>> \o join(Tail(ls))

-----------------------------------------------------------------------------
(* extract_code, agents/Visualisation.py lines 54-83 *)

\* the loops of lines 65-68 and 78-81: collect lines until one whose stripped
\* form starts with a fence
RECURSIVE CollectUntilFence(_)
CollectUntilFence(ls) ==
    IF ls = <<>> THEN <<>>
    ELSE IF startswith(strip(Head(ls)), <<FENCE>>) THEN <<>>
    ELSE <<Head(ls)>> \o CollectUntilFence(Tail(ls))

\* a variant of the loop that stops only at a line that is a bare fence
RECURSIVE CollectUntilBareFence(_)
CollectUntilBareFence(ls) ==
    IF ls = <<>> THEN <<>>
    ELSE IF strip(Head(ls)) = <<FENCE>> THEN <<>>
    ELSE <<Head(ls)>> \o CollectUntilBareFence(Tail(ls))

\* lines 71-75: index of the first line that starts with a fence, 0 for None
FirstFenceLine(lines) ==
    IF \E i \in 1..Len(lines) : startswith(strip(lines[i]), <<FENCE>>)
    THEN CHOOSE i \in 1..Len(lines) :
            /\ startswith(strip(lines[i]), <<FENCE>>)
            /\ \A j \in 1..(i - 1) : ~startswith(strip(lines[j]), <<FENCE>>)
    ELSE 0

\* a variant that hands a text without a fence back line by line
extract_code_rejoin(t) ==
    IF t = <<>> THEN <<>>
    ELSE LET lines == splitlines(t) IN
         IF Len(lines) >= 1 /\ startswith(strip(lines[1]), <<FENCE>>)
         THEN join(CollectUntilFence(Tail(lines)))
         ELSE LET start == FirstFenceLine(lines) IN
              IF start # 0
              THEN join(CollectUntilFence(SubSeq(lines, start + 1, Len(lines))))
              ELSE join(lines)

extract_code_bare_close(t) ==
    IF t = <<>> THEN <<>>
    ELSE LET lines == splitlines(t) IN
         IF Len(lines) >= 1 /\ startswith(strip(lines[1]), <<FENCE>>)
         THEN join(CollectUntilBareFence(Tail(lines)))
         ELSE LET start == FirstFenceLine(lines) IN
              IF start # 0
              THEN join(CollectUntilBareFence(SubSeq(lines, start + 1, Len(lines))))
              ELSE t

extract_code(t) ==
    IF t = <<>> THEN <<>>
    ELSE LET lines == splitlines(t) IN
         IF Len(lines) >= 1 /\ startswith(strip(lines[1]), <<FENCE>>)
         THEN join(CollectUntilFence(Tail(lines)))
         ELSE LET start == FirstFenceLine(lines) IN
              IF start # 0
              THEN join(CollectUntilFence(SubSeq(lines, start + 1, Len(lines))))
              ELSE t

-----------------------------------------------------------------------------
(* The raw model texts the extractor is run on *)

LineSet ==
    { <<>>, <<FENCE>>, <<FENCE, LANG>>, <<SP, FENCE>>, <<FENCE, X>>, <<FENCE, SP>>,
      <<X>>, <<X, FENCE>>, <<SP, X>> }

Texts ==
    { join(ls) \o tl :
        ls \in UNION { [1..n -> LineSet] : n \in 0..MaxLines },
        tl \in { <<>>, <<NL>> } }

ExtractIdle ==
    /\ text = <<>>
    /\ code = NotRun
    /\ xpc = "done"

MarketIdle ==
    /\ platform = "linux"
    /\ agent_processes = <<>>
    /\ procs = <<>>
    /\ hostSignalled = FALSE

UiIdle ==
    /\ ui = <<>>
    /\ rerun = 0

BuildIdle ==
    /\ fs = <<>>
    /\ generated_code = <<>>
    /\ agent_saved = FALSE
    /\ agent_saved_path = <<>>
    /\ agent_save_error = ""
    /\ form = <<>>
    /\ spc = "idle"
    /\ calls = 0

\* sanitize_filename has not been called
NotSanitized == << "[not-run]" >>

SanIdle ==
    /\ san_name = <<>>
    /\ san_result = NotSanitized
    /\ san_page = "build"

ExecIdle ==
    /\ snippet = <<>>
    /\ exec_globals = <<>>
    /\ exec_locals = <<>>
    /\ run = <<>>
    /\ earlier = {}

GateIdle ==
    /\ gates = <<>>
    /\ asked = FALSE

VariantIdle == inline = <<>>

CallIdle == upstream = <<>>

ListIdle ==
    /\ entries = {}
    /\ listed = <<>>

OtherIdle ==
    /\ GateIdle
    /\ VariantIdle
    /\ CallIdle
    /\ ListIdle

ExtractInit ==
    /\ text \in Texts
    /\ code = NotRun
    /\ xpc = "input"
    /\ MarketIdle
    /\ UiIdle
    /\ BuildIdle
    /\ SanIdle
    /\ ExecIdle
    /\ OtherIdle

\* code = extract_code(code_text), agents/Visualisation.py line 147
Extract ==
    /\ xpc = "input"
    /\ code' = extract_code(text)
    /\ xpc' = "done"
    /\ UNCHANGED text
    /\ UNCHANGED <<marketVars, uiVars, buildVars, sanVars, execVars, gateVars, variantVars, callVars, listVars>>

SpecExtract == ExtractInit /\ [][Extract]_vars

-----------------------------------------------------------------------------
(* C10 *)

IsFenceLine(l) == startswith(strip(l), <<FENCE>>)

\* the index of the first fence line after line i, Len + 1 when there is none
NextFenceAfter(lines, i) ==
    IF \E j \in (i + 1)..Len(lines) : IsFenceLine(lines[j])
    THEN CHOOSE j \in (i + 1)..Len(lines) :
            /\ IsFenceLine(lines[j])
            /\ \A k \in (i + 1)..(j - 1) : ~IsFenceLine(lines[k])
    ELSE Len(lines) + 1

\* C10: when the first line of the text, trimmed, begins with a fence marker,
\* extract_code returns exactly the lines strictly between that line and the
\* next fence line (the end of the text when no fence follows), joined by
\* line breaks, with neither marker line in the result.
C10_FenceAtStart ==
    (xpc = "done" /\ splitlines(text) # <<>> /\ IsFenceLine(splitlines(text)[1]))
        => LET lines == splitlines(text)
               close == NextFenceAfter(lines, 1)
           IN  code = join(SubSeq(lines, 2, close - 1))

\* a fenced block with a body line and a closing fence that carries trailing text
C10_Witness ==
    /\ xpc = "done"
    /\ splitlines(text) = << <<FENCE, LANG>>, <<SP, X>>, <<FENCE, X>> >>
    /\ code = <<SP, X>>

-----------------------------------------------------------------------------
(* C11, C12 *)

\* C11: a text with no fence marker anywhere comes back from extract_code
\* unchanged, final line break and surrounding blanks included.
C11_NoFenceUnchanged ==
    (xpc = "done" /\ \A i \in 1..Len(text) : text[i] # FENCE) => code = text

\* two lines of plain text, the second indented, with a final line break
C11_Witness ==
    /\ xpc = "done"
    /\ text = << X, NL, SP, X, NL >>
    /\ code = text

\* the line holds a fence marker somewhere
HoldsFence(l) == \E i \in 1..Len(l) : l[i] = FENCE

\* the index of the first line from line i on that holds a fence marker,
\* Len + 1 when there is none
FirstHolding(lines, i) ==
    IF \E j \in i..Len(lines) : HoldsFence(lines[j])
    THEN CHOOSE j \in i..Len(lines) :
            /\ HoldsFence(lines[j])
            /\ \A k \in i..(j - 1) : ~HoldsFence(lines[k])
    ELSE Len(lines) + 1

-----------------------------------------------------------------------------
(* Agent MarketPlace: pages/5_Agent_MarketPlace.py *)

\* path.stem of the files listed from ./marketplace (lines 127, 133)
Agents == { "ZomatoCustomerSupport", "helper" }

Pids == 1..MaxPid
None == 0                      \* Python's None where a pid is expected (falsy, like 0)
NoEntry == [absent |-> TRUE]   \* the name is not a key of the registry
NoProc == [absent |-> TRUE]    \* the pid was never handed out
HostPg == 0                    \* the process group of the Streamlit host
NoName == "none"

\* os.name as it follows from sys.platform
os_name == IF platform = "win32" THEN "nt" ELSE "posix"

FreePids == { p \in Pids : procs[p] = NoProc }
NewPid == CHOOSE p \in FreePids : \A q \in FreePids : p <= q

\* line 147: name in agent_processes and agent_processes[name].get("pid")
running(n) ==
    agent_processes[n] # NoEntry /\ agent_processes[n].pid # None

\* lines 180-189: the status line shown for an agent, given the registry
StatusOf(reg, n) ==
    IF reg[n] # NoEntry
    THEN IF reg[n].pid # None THEN "Running - PID" ELSE "Running - no PID"
    ELSE "Not running"

\* lines 62-93, start_agent_process: the entry it returns.
\*   termOk: try_open_in_terminal (lines 31-60) returned a Popen
\*   bgOk:   the fallback Popen of lines 83-91 did not raise
start_agent_process(use_streamlit, termOk, bgOk) ==
    LET cmd == IF use_streamlit THEN "streamlit run" ELSE "python" IN
    IF termOk
    THEN [pid |-> NewPid, proc |-> NewPid, cmd |-> cmd, terminal |-> TRUE, error |-> FALSE]
    ELSE IF bgOk
    THEN [pid |-> NewPid, proc |-> NewPid, cmd |-> cmd, terminal |-> FALSE, error |-> FALSE]
    ELSE [pid |-> None, proc |-> None, cmd |-> cmd, terminal |-> FALSE, error |-> TRUE]

\* the process a Popen creates: a terminal window is started without a new
\* session (lines 40, 44, 55) and stays in the host's process group; the
\* fallback starts its own session or process group (lines 86, 90)
Spawned(n, entry) ==
    [owner |-> n, alive |-> TRUE, pending |-> "none",
     pgid |-> IF entry.terminal THEN HostPg ELSE entry.pid]

\* messages of the Run handler, lines 153-165
RunMessages(entry) ==
    IF entry.error THEN { "Failed to start agent" }
    ELSE IF entry.pid # None THEN { "Started (pid)" }
    ELSE { "Started (no pid available)" }

\* a Run handler that starts the agent without looking at the registry first
RunBtnAlways(n, use_streamlit, termOk, bgOk) ==
    /\ FreePids # {}
    /\ LET entry == start_agent_process(use_streamlit, termOk, bgOk) IN
         /\ agent_processes' = [agent_processes EXCEPT ![n] = entry]
         /\ procs' = IF entry.pid # None
                     THEN [procs EXCEPT ![entry.pid] = Spawned(n, entry)]
                     ELSE procs
         /\ ui' = [btn |-> "run", name |-> n, msgs |-> RunMessages(entry),
                   status |-> StatusOf(agent_processes', n)]
    /\ rerun' = 1 - rerun
    /\ UNCHANGED <<platform, hostSignalled>>
    /\ UNCHANGED <<extractVars, buildVars, sanVars, execVars, gateVars, variantVars, callVars, listVars>>

\* lines 153-165 and 180-189: the script run in which Run was pressed for n
RunBtn(n, use_streamlit, termOk, bgOk) ==
    /\ rerun' = 1 - rerun
    /\ UNCHANGED <<platform, hostSignalled>>
    /\ UNCHANGED <<extractVars, buildVars, sanVars, execVars, gateVars, variantVars, callVars, listVars>>
    /\ IF running(n)
       THEN /\ ui' = [btn |-> "run", name |-> n,
                      msgs |-> { "Agent appears to be already running" },
                      status |-> StatusOf(agent_processes, n)]
            /\ UNCHANGED <<agent_processes, procs>>
       ELSE /\ FreePids # {}
            /\ LET entry == start_agent_process(use_streamlit, termOk, bgOk) IN
                 /\ agent_processes' = [agent_processes EXCEPT ![n] = entry]
                 /\ procs' = IF entry.pid # None
                             THEN [procs EXCEPT ![entry.pid] = Spawned(n, entry)]
                             ELSE procs
                 /\ ui' = [btn |-> "run", name |-> n, msgs |-> RunMessages(entry),
                           status |-> StatusOf(agent_processes', n)]

\* the process table after signal sig was sent to every process of group g
SignalGroup(g, sig) ==
    [p \in Pids |->
        IF procs[p] # NoProc /\ procs[p].alive /\ procs[p].pgid = g
        THEN [procs[p] EXCEPT !.pending = sig]
        ELSE procs[p]]

\* the process table after signal sig was sent to process q alone
SignalPid(q, sig) ==
    IF procs[q] # NoProc /\ procs[q].alive
    THEN [procs EXCEPT ![q].pending = sig]
    ELSE procs

\* the outcomes the signalling calls of stop_agent_process can have for pid q:
\* a call on a process that is gone can raise; a live child is signalled
StopOutcomes(q) ==
    IF q = None \/ (procs[q] # NoProc /\ procs[q].alive)
    THEN { "sent" }
    ELSE { "sent", "raised-then-killed", "raised-then-raised" }

\* lines 95-124, stop_agent_process(entry) under outcome o: <<ok, procs', host'>>
stop_agent_process(entry, o) ==
    LET q == IF entry.proc # None THEN entry.proc ELSE entry.pid IN
    IF entry.proc = None /\ entry.pid = None
    THEN <<FALSE, procs, hostSignalled>>                             \* line 124
    ELSE IF o = "sent"
    THEN IF os_name = "posix"
         THEN <<TRUE, SignalGroup(procs[q].pgid, "TERM"),            \* 103, 110
                hostSignalled \/ procs[q].pgid = HostPg>>
         ELSE <<TRUE,                                                \* 105, 112
                SignalPid(q, IF entry.proc # None THEN "KILL" ELSE "TERM"),
                hostSignalled>>
    ELSE IF o = "raised-then-killed"
    THEN <<TRUE, SignalPid(q, "KILL"), hostSignalled>>               \* 117-121
    ELSE <<FALSE, procs, hostSignalled>>                             \* 122-123

\* a Stop handler that takes any registry entry, pid or not, for a running agent
StopBtnByKey(n, o) ==
    /\ rerun' = 1 - rerun
    /\ UNCHANGED platform
    /\ UNCHANGED <<extractVars, buildVars, sanVars, execVars, gateVars, variantVars, callVars, listVars>>
    /\ IF agent_processes[n] = NoEntry
       THEN /\ ui' = [btn |-> "stop", name |-> n, msgs |-> { "Agent is not running." },
                      status |-> StatusOf(agent_processes, n)]
            /\ UNCHANGED <<agent_processes, procs, hostSignalled>>
       ELSE LET entry == agent_processes[n]
                r == stop_agent_process(entry, o)
            IN  /\ o \in StopOutcomes(entry.pid)
                /\ procs' = r[2]
                /\ hostSignalled' = r[3]
                /\ agent_processes' =
                       IF r[1] THEN [agent_processes EXCEPT ![n] = NoEntry]
                       ELSE agent_processes
                /\ ui' = [btn |-> "stop", name |-> n,
                          msgs |-> IF r[1] THEN { "Stopped process." }
                                   ELSE { "Failed to stop process." },
                          status |-> StatusOf(agent_processes', n)]

\* lines 167-178 and 180-189: the script run in which Stop was pressed for n
StopBtn(n, o) ==
    /\ rerun' = 1 - rerun
    /\ UNCHANGED platform
    /\ UNCHANGED <<extractVars, buildVars, sanVars, execVars, gateVars, variantVars, callVars, listVars>>
    /\ IF ~running(n)
       THEN /\ ui' = [btn |-> "stop", name |-> n, msgs |-> { "Agent is not running." },
                      status |-> StatusOf(agent_processes, n)]
            /\ UNCHANGED <<agent_processes, procs, hostSignalled>>
       ELSE LET entry == agent_processes[n]
                r == stop_agent_process(entry, o)
            IN  /\ o \in StopOutcomes(entry.pid)
                /\ procs' = r[2]
                /\ hostSignalled' = r[3]
                /\ agent_processes' =
                       IF r[1] THEN [agent_processes EXCEPT ![n] = NoEntry]
                       ELSE agent_processes
                /\ ui' = [btn |-> "stop", name |-> n,
                          msgs |-> IF r[1] THEN { "Stopped process." }
                                   ELSE { "Failed to stop process." },
                          status |-> StatusOf(agent_processes', n)]

\* an agent process ends on its own
ProcExit(p) ==
    /\ procs[p] # NoProc /\ procs[p].alive
    /\ procs' = [procs EXCEPT ![p].alive = FALSE, ![p].pending = "none"]
    /\ UNCHANGED <<platform, agent_processes, hostSignalled, ui, rerun>>
    /\ UNCHANGED <<extractVars, buildVars, sanVars, execVars, gateVars, variantVars, callVars, listVars>>

\* a pending signal reaches its process: SIGKILL ends it, SIGTERM ends it
\* unless the process handles or ignores the signal
Deliver(p, dies) ==
    /\ procs[p] # NoProc /\ procs[p].alive /\ procs[p].pending # "none"
    /\ dies \/ procs[p].pending = "TERM"
    /\ procs' = [procs EXCEPT ![p].alive = ~dies, ![p].pending = "none"]
    /\ UNCHANGED <<platform, agent_processes, hostSignalled, ui, rerun>>
    /\ UNCHANGED <<extractVars, buildVars, sanVars, execVars, gateVars, variantVars, callVars, listVars>>

MarketInit ==
    /\ platform \in { "linux", "darwin", "win32" }
    /\ agent_processes = [n \in Agents |-> NoEntry]          \* lines 21-22
    /\ procs = [p \in Pids |-> NoProc]
    /\ hostSignalled = FALSE
    /\ ui = [btn |-> "none", name |-> NoName, msgs |-> {}, status |-> "Not running"]
    /\ rerun = 0
    /\ ExtractIdle
    /\ BuildIdle
    /\ SanIdle
    /\ ExecIdle
    /\ OtherIdle

MarketNext ==
    \/ \E n \in Agents, s \in BOOLEAN, t \in BOOLEAN, b \in BOOLEAN : RunBtn(n, s, t, b)
    \/ \E n \in Agents, o \in { "sent", "raised-then-killed", "raised-then-raised" } :
          StopBtn(n, o)
    \/ \E p \in Pids : ProcExit(p)
    \/ \E p \in Pids, d \in BOOLEAN : Deliver(p, d)

SpecMarket == MarketInit /\ [][MarketNext]_vars

-----------------------------------------------------------------------------
(* C1 - C4: the Run / Stop registry *)

\* this step is the script run that handled button b of agent n
Handled(b, n) == rerun' # rerun /\ ui'.btn = b /\ ui'.name = n

\* this step starts a process for agent n
SpawnsFor(n) ==
    \E p \in Pids : procs[p] = NoProc /\ procs'[p] # NoProc /\ procs'[p].owner = n

\* C1: pressing Run for an agent the registry records as running starts no
\* process and leaves the registry as it is, showing only the warning; a process
\* is started for a name only while the name is not recorded as running, and a
\* name recorded as running stops being so only by a Stop that reports success.
C1_RunWhileRunningRejected ==
    [][ \A n \in Agents :
          /\ (Handled("run", n) /\ running(n))
                => /\ agent_processes' = agent_processes
                   /\ procs' = procs
                   /\ ui'.msgs = { "Agent appears to be already running" }
          /\ SpawnsFor(n) => ~running(n)
          /\ (running(n) /\ ~running(n)')
                => (Handled("stop", n) /\ ui'.msgs = { "Stopped process." })
      ]_vars

\* Run was pressed for a running agent and rejected; its process is untouched
C1_Witness ==
    /\ ui.btn = "run"
    /\ ui.msgs = { "Agent appears to be already running" }
    /\ running(ui.name)
    /\ procs[agent_processes[ui.name].pid].alive

\* C2: an agent name leaves Not Running (no registry entry, status "Not
\* running") only by a Run that succeeds; after a Run whose launch fails the
\* registry holds no entry for the name and the status shown is "Not running".
C2_FailedRunStaysNotRunning ==
    [][ \A n \in Agents :
          /\ (agent_processes[n] = NoEntry /\ agent_processes'[n] # NoEntry)
                => (Handled("run", n) /\ "Failed to start agent" \notin ui'.msgs)
          /\ (Handled("run", n) /\ "Failed to start agent" \in ui'.msgs)
                => (agent_processes'[n] = NoEntry /\ ui'.status = "Not running")
      ]_vars

\* C3: whenever an entry is deleted from the registry, the process it recorded
\* has terminated.
C3_StopDeletesOnlyTerminated ==
    [][ \A n \in Agents :
          (agent_processes[n] # NoEntry /\ agent_processes'[n] = NoEntry)
              => (agent_processes[n].pid # None
                     => ~procs'[agent_processes[n].pid].alive)
      ]_vars

\* C4: pressing Stop for an agent that is not recorded as running sends no
\* signal, leaves the registry and the process table as they are and shows
\* the warning alone.
C4_StopNotRunningIsNoOp ==
    [][ \A n \in Agents :
          (Handled("stop", n) /\ ~running(n))
              => /\ agent_processes' = agent_processes
                 /\ procs' = procs
                 /\ hostSignalled' = hostSignalled
                 /\ ui'.msgs = { "Agent is not running." }
      ]_vars

\* Stop was pressed for an agent whose only registry entry is a failed launch,
\* while another agent's process is alive and unsignalled
C4_Witness ==
    /\ ui.btn = "stop"
    /\ ui.msgs = { "Agent is not running." }
    /\ agent_processes[ui.name] # NoEntry
    /\ agent_processes[ui.name].error
    /\ \E p \in Pids : procs[p] # NoProc /\ procs[p].alive /\ procs[p].pending = "none"

\* C28: a Stop for an agent signals only processes launched for that agent:
\* every process whose state the Stop step changes is owned by the stopped
\* agent, and no signal goes to the process group of the host.
C28_StopSignalsOwnProcessesOnly ==
    [][ \A n \in Agents :
          Handled("stop", n)
              => /\ hostSignalled' = hostSignalled
                 /\ \A p \in Pids :
                       (procs[p] # NoProc /\ procs'[p] # procs[p]) => procs[p].owner = n
      ]_vars

\* C29: an agent the registry records as running (an entry with a pid) has a
\* live process that was launched for it.
C29_RegistryReflectsLiveness ==
    \A n \in Agents :
        running(n) => \E p \in Pids : /\ procs[p] # NoProc
                                      /\ procs[p].owner = n
                                      /\ procs[p].alive

-----------------------------------------------------------------------------
(* Agent Builder: pages/2_Build_Agent.py.                                  *)
(* Multi-Agent System Builder: pages/4_Multi_Agent_System.py.              *)

Unset == << "[unset]" >>       \* the key is not in st.session_state
Absent == << "[absent]" >>     \* no file at the path
NoForm == << "[no-form]" >>    \* the last script run rendered no Save form
KEY == "USER_GEMINI_KEY"

\* the characters [A-Za-z0-9_-] keeps, as far as names here are made of them
SafeChars == { "a", "g", "e", "n", "t", "m", "u", "l", "i", "0", "-", "_" }

\* a substitution that drops the characters it should replace
RECURSIVE ReplaceUnsafeDrop(_)
ReplaceUnsafeDrop(nm) ==
    IF nm = <<>> THEN <<>>
    ELSE (IF Head(nm) \in SafeChars THEN << Head(nm) >> ELSE <<>>) \o ReplaceUnsafeDrop(Tail(nm))

\* re.sub(r"[^A-Za-z0-9_-]", "_", name), line 159
RECURSIVE ReplaceUnsafe(_)
ReplaceUnsafe(nm) ==
    IF nm = <<>> THEN <<>>
    ELSE << IF Head(nm) \in SafeChars THEN Head(nm) ELSE "_" >> \o ReplaceUnsafe(Tail(nm))

\* Python's None where a name is expected
NoneName == << "[None]" >>

\* (name or ""), lines 158 and 27
or_empty(nm) == IF nm = NoneName THEN <<>> ELSE nm

\* a sanitize_filename without the default name
sanitize_filename_no_default(nm) ==
    ReplaceUnsafe(strip(or_empty(nm)))

\* lines 157-162
sanitize_filename(nm) ==
    LET r == ReplaceUnsafe(strip(or_empty(nm))) IN
    IF r = <<>> THEN << "a", "g", "e", "n", "t" >> ELSE r

\* what the operator types into "Agent filename (no extension)"
RawNames == { <<>>, << SP, "a", "!" >>, << "a", "_" >> }

Stems == { sanitize_filename(r) : r \in RawNames }

\* line 191: os.path.join(agents_dir, f"{safe_name}.py"); line 197: final_path + ".tmp"
FinalPath(stem) == << "agents", stem, ".py" >>
TmpPath(stem) == << "agents", stem, ".py.tmp" >>
\* line 106: app_file = "generated_app.py"
AppFile == << ".", << "generated_app" >>, ".py" >>

Paths == { FinalPath(st) : st \in Stems } \cup { TmpPath(st) : st \in Stems } \cup { AppFile }

Exists(path) == fs[path] # Absent

\* the texts the model returns to these pages
BuildTexts ==
    { <<>>,
      join(<< << FENCE, LANG >>, << X >>, << FENCE >> >>),
      << X, NL, SP, X, NL >> }

\* a file that was in ./agents before the session
OldContent == << X, X, X >>

\* the loop of lines 84-89 (and 143-148) from line i on, with start_index = start:
\* <<start_index, end_index>>, 0 for None
RECURSIVE FenceScan(_, _, _)
FenceScan(lines, i, start) ==
    IF i > Len(lines) THEN << start, 0 >>
    ELSE IF startswith(strip(lines[i]), << FENCE, LANG >>) THEN FenceScan(lines, i + 1, i)
    ELSE IF strip(lines[i]) = << FENCE >> /\ start # 0 THEN << start, i >>
    ELSE FenceScan(lines, i + 1, start)

HasToken(s, t) == \E i \in 1..Len(s) : s[i] = t

\* lines 78-91 of 2_Build_Agent.py: cleaned_code from code
BuildExtract(c) ==
    LET code_lines == splitlines(c)
        se == FenceScan(code_lines, 1, 0)
    IN  IF HasToken(c, FENCE) /\ se[1] # 0 /\ se[2] # 0 /\ se[2] > se[1]
        THEN join(SubSeq(code_lines, se[1] + 1, se[2] - 1))
        ELSE c

\* lines 140-154 of 4_Multi_Agent_System.py: cleaned_code from a non-empty raw
MultiExtract(raw) ==
    IF HasToken(raw, FENCE)
    THEN LET lines == splitlines(raw)
             se == FenceScan(lines, 1, 0)
         IN  IF se[1] # 0 /\ se[2] # 0 /\ se[2] > se[1]
             THEN join(SubSeq(lines, se[1] + 1, se[2] - 1))
             ELSE raw
    ELSE raw

\* lines 158-160 of 4_Multi_Agent_System.py: the fallback text
Template == << X, NL, X, NL >>

\* lines 94-97: the USER_GEMINI_KEY line put in front of the code
InjectKey(cleaned, has_key) ==
    IF has_key /\ ~HasToken(cleaned, KEY)
    THEN << KEY, X, NL, NL >> \o cleaned
    ELSE cleaned

\* the keys the pages ever store in st.session_state
SessionKeys ==
    { "generated_code", "generated_app_file", "agent_saved", "agent_saved_path",
      "agent_save_error", "form_agent_name", "form_overwrite",
      "generated_multi_agent", "generated_multi_agent_path" }

\* a code_to_save that falls through to the default of the session lookup
code_to_save_default(cleaned_global) == <<>>

\* line 155: st.session_state.get("cleaned_code", globals().get("cleaned_code", ""))
code_to_save(cleaned_global) ==
    IF "cleaned_code" \in SessionKeys THEN Unset ELSE cleaned_global

FileExists == "File exists and overwrite not confirmed."
ErrSaving == "Error saving agent"
NoCodeToSave == "No generated code to save."

\* what a script run of the Agent Builder renders from line 147 on, and the
\* Save form it leaves on the page: <<form, messages>>
\*   inGlobals: cleaned_code was assigned in this script run
SaveSection(inGlobals, cleaned) ==
    IF ~inGlobals /\ "cleaned_code" \notin SessionKeys
    THEN << NoForm, { NoCodeToSave } >>                                 \* 151-152
    ELSE IF agent_saved
    THEN << NoForm, { "Agent already saved" } >>                        \* 176-183
    ELSE << code_to_save(cleaned),                                      \* 186-237
            IF agent_save_error # "" THEN { agent_save_error }
            ELSE { "Saved agents live in ./agents/" } >>

Shown(page, action, model, msgs, caught, wrote, launched, raw_name, overwrite) ==
    [page |-> page, action |-> action, model |-> model, msgs |-> msgs,
     caught |-> caught, wrote |-> wrote, launched |-> launched,
     raw_name |-> raw_name, overwrite |-> overwrite]

\* how the model call of a handler ended, as the claim names it
ModelOutcome(m, raw) ==
    IF m = "ok" THEN (IF strip(raw) = <<>> THEN "empty" ELSE "ok") ELSE m

\* lines 105-137 (and 168-199): write generated_app.py and launch it.
\*   wr: open / write succeeded; ln: subprocess.Popen did not raise
\* <<fs', messages, caught, wrote, launched>>
WriteAndLaunch(cleaned, wr, ln) ==
    IF wr
    THEN << [fs EXCEPT ![AppFile] = cleaned],
            { "App saved as generated_app.py", "Running App..." },
            IF ln THEN {} ELSE { "launch" },
            TRUE, ln >>
    ELSE << fs, { "Error while saving or launching generated code" }, { "appfile" },
            FALSE, FALSE >>

\* the script run of 2_Build_Agent.py in which "Generate & Show App Code" was pressed
BuildGenerate(desc_ok, has_key, m, raw, wr, ln) ==
    /\ spc = "idle"
    /\ calls < MaxCalls
    /\ calls' = calls + 1
    /\ rerun' = 1 - rerun
    /\ UNCHANGED <<agent_saved, agent_saved_path, agent_save_error, spc>>
    /\ UNCHANGED <<extractVars, marketVars, sanVars, execVars, gateVars, variantVars, callVars, listVars>>
    /\ IF m = "noclient"                                     \* line 14, setup_gemini stops
       THEN /\ ui' = Shown("build", "generate", "noclient",
                           { "Failed to initialize Gemini client" }, { "client" },
                           FALSE, FALSE, <<>>, FALSE)
            /\ form' = NoForm
            /\ UNCHANGED <<fs, generated_code>>
       ELSE IF ~desc_ok                                      \* lines 39-40
       THEN /\ ui' = Shown("build", "generate", "none",
                           { "Please enter a description first." }
                              \cup SaveSection(FALSE, <<>>)[2],
                           {}, FALSE, FALSE, <<>>, FALSE)
            /\ form' = SaveSection(FALSE, <<>>)[1]
            /\ UNCHANGED <<fs, generated_code>>
       ELSE IF m = "raise"                                   \* lines 73-75
       THEN /\ ui' = Shown("build", "generate", "raise",
                           { "Error generating app code" }, { "model" },
                           FALSE, FALSE, <<>>, FALSE)
            /\ form' = NoForm
            /\ UNCHANGED <<fs, generated_code>>
       ELSE LET c == strip(raw)                              \* line 77
                cleaned == InjectKey(BuildExtract(c), has_key)
                wl == WriteAndLaunch(cleaned, wr, ln)
                sv == SaveSection(TRUE, cleaned)
            IN  /\ generated_code' = cleaned                 \* line 100
                /\ fs' = wl[1]
                /\ form' = sv[1]
                /\ ui' = Shown("build", "generate", ModelOutcome(m, raw),
                               wl[2] \cup sv[2], wl[3], wl[4], wl[5], <<>>, FALSE)

\* any other script run of 2_Build_Agent.py: a widget changed, "Save another
\* agent" was pressed, the page was opened again
OtherRerun ==
    /\ spc = "idle"
    /\ rerun' = 1 - rerun
    /\ form' = SaveSection(FALSE, <<>>)[1]
    /\ ui' = Shown("build", "rerun", "none", SaveSection(FALSE, <<>>)[2], {},
                   FALSE, FALSE, <<>>, FALSE)
    /\ UNCHANGED <<fs, generated_code, agent_saved, agent_saved_path, agent_save_error, spc,
                   calls>>
    /\ UNCHANGED <<extractVars, marketVars, sanVars, execVars, gateVars, variantVars, callVars, listVars>>

\* the callback has returned; the script runs again without cleaned_code
SaveReturns(raw_name, overwrite, caught) ==
    /\ spc' = "idle"
    /\ rerun' = 1 - rerun
    /\ form' = SaveSection(FALSE, <<>>)[1]
    /\ ui' = Shown("build", "save", "none", SaveSection(FALSE, <<>>)[2], caught,
                   FALSE, FALSE, raw_name, overwrite)

\* a callback that never looks at the overwrite flag
SaveBeginNoCheck(raw_name, overwrite, opened) ==
    /\ spc = "idle" /\ form # NoForm
    /\ UNCHANGED <<generated_code, agent_saved, agent_saved_path, calls>>
    /\ UNCHANGED <<extractVars, marketVars, sanVars, execVars, gateVars, variantVars, callVars, listVars>>
    /\ LET final_path == FinalPath(sanitize_filename(raw_name))
           tmp_path == TmpPath(sanitize_filename(raw_name))
       IN  IF opened
           THEN /\ fs' = [fs EXCEPT ![tmp_path] = <<>>]
                /\ spc' = "write"
                /\ ui' = Shown("build", "save", "none", {}, {}, FALSE, FALSE,
                               raw_name, overwrite)
                /\ UNCHANGED <<agent_save_error, form, rerun>>
           ELSE /\ agent_save_error' = ErrSaving
                /\ SaveReturns(raw_name, overwrite, { "save" })
                /\ UNCHANGED fs

\* _save_agent_callback, lines 186-198: "Save agent" was submitted; the
\* callback checks the target and opens the temporary file.  The overwrite
\* checkbox is on the form only when the file of the name the form was drawn
\* with (none, so "agent") exists; form_overwrite is False otherwise.
\*   opened: open(tmp_path, "w") did not raise
SaveBegin(raw_name, overwrite, opened) ==
    /\ spc = "idle" /\ form # NoForm
    /\ overwrite => Exists(FinalPath(sanitize_filename(<<>>)))   \* 216-227
    /\ UNCHANGED <<generated_code, agent_saved, agent_saved_path, calls>>
    /\ UNCHANGED <<extractVars, marketVars, sanVars, execVars, gateVars, variantVars, callVars, listVars>>
    /\ LET final_path == FinalPath(sanitize_filename(raw_name))
           tmp_path == TmpPath(sanitize_filename(raw_name))
       IN  IF Exists(final_path) /\ ~overwrite
           THEN /\ agent_save_error' = FileExists                \* 194-196
                /\ SaveReturns(raw_name, overwrite, {})
                /\ UNCHANGED fs
           ELSE IF opened
           THEN /\ fs' = [fs EXCEPT ![tmp_path] = <<>>]          \* 197-198
                /\ spc' = "write"
                /\ ui' = Shown("build", "save", "none", {}, {}, FALSE, FALSE,
                               raw_name, overwrite)
                /\ UNCHANGED <<agent_save_error, form, rerun>>
           ELSE /\ agent_save_error' = ErrSaving                 \* 204-205
                /\ SaveReturns(raw_name, overwrite, { "save" })
                /\ UNCHANGED fs

\* a callback that writes the code straight to the final path
SaveWriteDirect(k) ==
    /\ spc = "write"
    /\ k \in 0..Len(form)
    /\ UNCHANGED <<generated_code, agent_saved, agent_saved_path, calls>>
    /\ UNCHANGED <<extractVars, marketVars, sanVars, execVars, gateVars, variantVars, callVars, listVars>>
    /\ LET final_path == FinalPath(sanitize_filename(ui.raw_name)) IN
         /\ fs' = [fs EXCEPT ![final_path] = SubSeq(form, 1, k)]
         /\ IF k = Len(form)
            THEN /\ spc' = "replace"
                 /\ UNCHANGED <<agent_save_error, form, ui, rerun>>
            ELSE /\ agent_save_error' = ErrSaving
                 /\ SaveReturns(ui.raw_name, ui.overwrite, { "save" })

\* lines 198-199: f.write(code_to_save) and the close of the file; the write
\* puts the first k characters in the file and raises when k falls short
SaveWrite(k) ==
    /\ spc = "write"
    /\ k \in 0..Len(form)
    /\ UNCHANGED <<generated_code, agent_saved, agent_saved_path, calls>>
    /\ UNCHANGED <<extractVars, marketVars, sanVars, execVars, gateVars, variantVars, callVars, listVars>>
    /\ LET tmp_path == TmpPath(sanitize_filename(ui.raw_name)) IN
         /\ fs' = [fs EXCEPT ![tmp_path] = SubSeq(form, 1, k)]
         /\ IF k = Len(form)
            THEN /\ spc' = "replace"
                 /\ UNCHANGED <<agent_save_error, form, ui, rerun>>
            ELSE /\ agent_save_error' = ErrSaving                \* 204-205
                 /\ SaveReturns(ui.raw_name, ui.overwrite, { "save" })

\* lines 200-205: os.replace(tmp_path, final_path) and the session flags
\*   replaced: os.replace did not raise
SaveReplace(replaced) ==
    /\ spc = "replace"
    /\ UNCHANGED <<generated_code, calls>>
    /\ UNCHANGED <<extractVars, marketVars, sanVars, execVars, gateVars, variantVars, callVars, listVars>>
    /\ LET safe_name == sanitize_filename(ui.raw_name)
           final_path == FinalPath(safe_name)
           tmp_path == TmpPath(safe_name)
       IN  IF replaced
           THEN /\ fs' = [fs EXCEPT ![final_path] = fs[tmp_path], ![tmp_path] = Absent]
                /\ agent_saved' = TRUE
                /\ agent_saved_path' = safe_name
                /\ agent_save_error' = ""
                /\ SaveReturns(ui.raw_name, ui.overwrite, {})
           ELSE /\ agent_save_error' = ErrSaving
                /\ SaveReturns(ui.raw_name, ui.overwrite, { "save" })
                /\ UNCHANGED <<fs, agent_saved, agent_saved_path>>

\* line 41: the .py files of ./agents
agent_files == { st \in Stems : Exists(FinalPath(st)) }

\* the script run of 4_Multi_Agent_System.py in which "Generate Multi-Agent
\* Orchestrator" was submitted
MultiGenerate(selected_ok, prompt_ok, m, raw, wr, ln) ==
    /\ spc = "idle"
    /\ calls < MaxCalls
    /\ calls' = calls + 1
    /\ rerun' = 1 - rerun
    /\ form' = NoForm
    /\ UNCHANGED <<generated_code, agent_saved, agent_saved_path, agent_save_error, spc>>
    /\ UNCHANGED <<extractVars, marketVars, sanVars, execVars, gateVars, variantVars, callVars, listVars>>
    /\ IF agent_files = {}                                          \* lines 43-45
       THEN /\ ui' = Shown("multi", "generate", "none", { "No agents found" }, {},
                           FALSE, FALSE, <<>>, FALSE)
            /\ UNCHANGED fs
       ELSE IF ~selected_ok                                         \* lines 92-93
       THEN /\ ui' = Shown("multi", "generate", "none", { "Select at least one agent." },
                           {}, FALSE, FALSE, <<>>, FALSE)
            /\ UNCHANGED fs
       ELSE IF ~prompt_ok                                           \* lines 94-95
       THEN /\ ui' = Shown("multi", "generate", "none",
                           { "Provide a description of how the agents are connected." },
                           {}, FALSE, FALSE, <<>>, FALSE)
            /\ UNCHANGED fs
       ELSE IF m = "noclient"                   \* line 123: setup_gemini stops the script
       THEN /\ ui' = Shown("multi", "generate", "noclient",
                           { "Failed to initialize Gemini client" }, { "client" },
                           FALSE, FALSE, <<>>, FALSE)
            /\ UNCHANGED fs
       ELSE LET r == IF m = "raise" THEN <<>> ELSE strip(raw)       \* 127, 134
                cleaned == IF r # <<>> THEN MultiExtract(r) ELSE Template
                wl == WriteAndLaunch(cleaned, wr, ln)
                first == IF m = "raise" THEN { "Error generating orchestrator" } ELSE {}
            IN  /\ fs' = wl[1]
                /\ ui' = Shown("multi", "generate", ModelOutcome(m, raw),
                               first \cup wl[2],
                               (IF m = "raise" THEN { "model" } ELSE {}) \cup wl[3],
                               wl[4], wl[5], <<>>, FALSE)

Init ==
    /\ \E pre \in SUBSET Stems :
          /\ Cardinality(pre) <= 1
          /\ fs = [path \in Paths |->
                     IF \E st \in pre : path = FinalPath(st) THEN OldContent ELSE Absent]
    /\ generated_code = Unset
    /\ agent_saved = FALSE                                          \* lines 168-173
    /\ agent_saved_path = <<>>
    /\ agent_save_error = ""
    /\ form = NoForm
    /\ spc = "idle"
    /\ calls = 0
    /\ ui = Shown("build", "none", "none", {}, {}, FALSE, FALSE, <<>>, FALSE)
    /\ rerun = 0
    /\ ExtractIdle
    /\ MarketIdle
    /\ SanIdle
    /\ ExecIdle
    /\ OtherIdle

ModelOutcomes == { "ok", "raise", "noclient" }

\* the inputs and outcomes a Generate handler can meet: the text matters only
\* when the model answered, the launch only when the file was written
GenerateCases ==
    { c \in [ok : BOOLEAN, has_key : BOOLEAN, m : ModelOutcomes, raw : BuildTexts,
              wr : BOOLEAN, ln : BOOLEAN] :
        /\ (c.m # "ok" \/ ~c.ok) => (c.raw = <<>> /\ c.wr /\ ~c.has_key)
        /\ (c.m = "noclient") => c.ok
        /\ ~c.wr => ~c.ln
        /\ (c.m = "noclient" \/ ~c.ok) => c.ln }

Next ==
    \/ \E c \in GenerateCases : BuildGenerate(c.ok, c.has_key, c.m, c.raw, c.wr, c.ln)
    \/ OtherRerun
    \/ \E nm \in RawNames, ow \in BOOLEAN, op \in BOOLEAN : SaveBegin(nm, ow, op)
    \/ \E k \in 0..Len(form) : SaveWrite(k)
    \/ \E rp \in BOOLEAN : SaveReplace(rp)
    \/ \E sl \in BOOLEAN, c \in GenerateCases :
          (sl \/ c.ok) /\ MultiGenerate(sl, c.ok, c.m, c.raw, c.wr, c.ln)

Spec == Init /\ [][Next]_vars

-----------------------------------------------------------------------------
(* C5 - C7: Save *)

\* this step is the start of _save_agent_callback
SaveStarts ==
    /\ spc = "idle" /\ form # NoForm
    /\ ui'.action = "save"
    /\ spc' = "write" \/ rerun' # rerun

\* C5: a save whose target <sanitized name>.py exists, with the overwrite flag
\* not set, changes no file (the target keeps its content, no temporary file
\* appears), records the "file exists" error and leaves agent_saved unset.
C5_NoOverwriteWithoutFlag ==
    [][ (/\ SaveStarts
         /\ Exists(FinalPath(sanitize_filename(ui'.raw_name)))
         /\ ~ui'.overwrite)
            => /\ fs' = fs
               /\ agent_save_error' = FileExists
               /\ ~agent_saved'
               /\ spc' = "idle"
      ]_vars

\* the save was refused: the old file is intact and there is no temporary file
C5_Witness ==
    /\ ui.action = "save" /\ ~ui.overwrite
    /\ agent_save_error = FileExists
    /\ fs[FinalPath(sanitize_filename(ui.raw_name))] = OldContent
    /\ fs[TmpPath(sanitize_filename(ui.raw_name))] = Absent
    /\ ~agent_saved

\* C6: no step of a save, a failing one included, puts anything but the whole
\* snippet at a final path <sanitized name>.py: the path keeps what it held
\* (nothing, or the previous content) until it holds the complete new code.
C6_FinalPathNeverPartial ==
    [][ \A st \in Stems :
          fs'[FinalPath(st)] # fs[FinalPath(st)]
              => /\ form # NoForm
                 /\ fs'[FinalPath(st)] = form
                 /\ form = generated_code
      ]_vars

\* a write failed part-way: the temporary file holds a proper, non-empty part
\* of the code and the final path still holds the previous content
C6_Witness ==
    /\ ui.action = "save" /\ spc = "idle"
    /\ agent_save_error = ErrSaving
    /\ LET st == sanitize_filename(ui.raw_name) IN
         /\ fs[TmpPath(st)] # Absent
         /\ fs[TmpPath(st)] # <<>>
         /\ Len(fs[TmpPath(st)]) < Len(generated_code)
         /\ fs[FinalPath(st)] = OldContent

-----------------------------------------------------------------------------
(* C8, C9: errors *)

\* the st.error messages of the two Generate handlers
ErrorMessages ==
    { "Failed to initialize Gemini client", "Error generating app code",
      "Error generating orchestrator", "Error while saving or launching generated code" }

\* C8: when the model call of an action failed (it raised, no client could be
\* had, or the text came back empty), the action wrote no file and launched no
\* process, and it rendered error messages only.
C8_UpstreamErrorStopsAction ==
    ui.model \in { "raise", "empty", "noclient" }
        => /\ ~ui.wrote
           /\ ~ui.launched
           /\ ui.msgs # {}
           /\ ui.msgs \subseteq ErrorMessages

\* the messages that tell the operator of a failure of each kind
Reports(kind) ==
    CASE kind = "client" -> { "Failed to initialize Gemini client" }
      [] kind = "model" -> { "Error generating app code", "Error generating orchestrator" }
      [] kind = "appfile" -> { "Error while saving or launching generated code" }
      [] kind = "launch" -> { "Error while saving or launching generated code" }
      [] kind = "save" -> { ErrSaving }

\* C9: every failure an action caught is told to the operator by at least one
\* message of that action.
C9_EveryCaughtFailureIsShown ==
    \A kind \in ui.caught : ui.msgs \cap Reports(kind) # {}

-----------------------------------------------------------------------------
(* sanitize_filename on the names an operator can type *)

MaxName == 3         \* characters of a typed name

\* a letter, a digit, the two punctuation marks the class keeps, one it does
\* not keep, and a blank
NameChars == { "a", "0", "-", "_", "!", SP }

TypedNames == UNION { [1..n -> NameChars] : n \in 0..MaxName }

\* the arguments sanitize_filename(name: str) takes care of: a string, or None
NameArgs == TypedNames \cup { NoneName }

\* pages/4_Multi_Agent_System.py lines 26-31
sanitize_filename_multi(nm) ==
    LET r == ReplaceUnsafe(strip(or_empty(nm))) IN
    IF r = <<>> THEN << "m", "u", "l", "t", "i", "_", "a", "g", "e", "n", "t" >> ELSE r

SanInit ==
    /\ san_name \in NameArgs
    /\ san_page \in { "build", "multi" }
    /\ san_result = NotSanitized
    /\ ExtractIdle
    /\ MarketIdle
    /\ UiIdle
    /\ BuildIdle
    /\ ExecIdle
    /\ OtherIdle

\* safe_name = sanitize_filename(raw_name): 2_Build_Agent.py line 190,
\* 4_Multi_Agent_System.py line 157
Sanitize ==
    /\ san_result = NotSanitized
    /\ san_result' = IF san_page = "build" THEN sanitize_filename(san_name)
                     ELSE sanitize_filename_multi(san_name)
    /\ UNCHANGED <<san_name, san_page>>
    /\ UNCHANGED <<extractVars, marketVars, uiVars, buildVars, execVars, gateVars, variantVars, callVars, listVars>>

SpecSanitize == SanInit /\ [][Sanitize]_vars

\* C20: the result of sanitize_filename is made of characters of
\* [A-Za-z0-9_-] only; and when the name, trimmed of surrounding whitespace,
\* is not empty, the result has the trimmed name's length, each character of
\* the class in its place and '_' in the place of every other character.
C20_CharacterMapping ==
    (san_result # NotSanitized /\ san_name \in TypedNames)
        => LET t == strip(san_name) IN
           /\ \A i \in 1..Len(san_result) : san_result[i] \in SafeChars
           /\ t # <<>>
                => /\ Len(san_result) = Len(t)
                   /\ \A i \in 1..Len(t) :
                        san_result[i] = IF t[i] \in SafeChars THEN t[i] ELSE "_"

\* a name with a blank inside and an exclamation mark at its end
C20_Witness ==
    /\ san_name = << "a", SP, "!" >>
    /\ san_result = << "a", "_", "_" >>

\* C21: for None, for the empty name and for a name of whitespace only the
\* result is the default name of the page, 'agent' on the Build Agent page
\* and 'multi_agent' on the Multi-Agent page; and the result is never empty.
C21_DefaultName ==
    san_result # NotSanitized
        => /\ (san_name = NoneName \/ \A i \in 1..Len(san_name) : san_name[i] = SP)
                => san_result = IF san_page = "build"
                                THEN << "a", "g", "e", "n", "t" >>
                                ELSE << "m", "u", "l", "t", "i", "_", "a", "g", "e", "n", "t" >>
           /\ san_result # <<>>

\* None on the Build Agent page
C21_Witness ==
    /\ san_name = NoneName
    /\ san_page = "build"
    /\ san_result = << "a", "g", "e", "n", "t" >>

-----------------------------------------------------------------------------
(* The Sandboxed Executor.                                                  *)
(*   "visualisation": run_generated_code and its caller,                    *)
(*                    agents/Visualisation.py lines 86-112 and 146-170      *)
(*   "supabase":      the Generate & Run handler,                           *)
(*                    agents/SupabaseConnector.py lines 134-180             *)
(*   "planner":       the Generate Workflow Diagram handler,                *)
(*                    pages/1_Workflow_Planner.py lines 42-79               *)
(*                                                                          *)
(* A snippet is a sequence of lines, one statement a line, none indented    *)
(* (textwrap.dedent leaves such a text as it is).  exec compiles the whole  *)
(* text first, so a fence line left in it is a SyntaxError before any       *)
(* statement runs.  Top-level assignments of code run with separate         *)
(* mappings bind in the locals; a name declared global binds in the         *)
(* globals; a name is looked up in the locals, then in the globals.         *)

MaxStmts == 3          \* lines of a snippet
MaxSessionStmts == 2   \* statements of a snippet in a session of several runs

Variants == { "visualisation", "supabase", "planner" }

NsNames == { "plt", "df", "connection", "fig", "result", "tmp" }

Unbound == [kind |-> "unbound"]      \* the name is not a key of the mapping
NoneV == [kind |-> "None"]           \* Python's None
List(rows) == [kind |-> "list", rows |-> rows]
Obj(kind) == [kind |-> kind]

\* Visualisation.py lines 95-103; SupabaseConnector.py lines 148-152;
\* 1_Workflow_Planner.py line 64
PreGlobal(v, n) ==
    IF v = "supabase"
    THEN (IF n = "connection" THEN Obj("handle") ELSE Unbound)
    ELSE (IF n = "plt" THEN Obj("module") ELSE Unbound)

\* Visualisation.py line 105; SupabaseConnector.py line 153;
\* 1_Workflow_Planner.py line 62
PreLocal(v, n) ==
    IF v = "visualisation" /\ n = "df" THEN Obj("table") ELSE Unbound

\* a globals mapping that is kept from one execution to the next
KeptGlobals(v) ==
    [n \in NsNames |-> IF PreGlobal(v, n) # Unbound THEN PreGlobal(v, n) ELSE exec_globals[n]]

NewGlobals(v) == [n \in NsNames |-> PreGlobal(v, n)]
NewLocals(v) == [n \in NsNames |-> PreLocal(v, n)]

EmptyNs == [n \in NsNames |-> Unbound]

\* the variable the handler reads after exec
Designated(v) == IF v = "supabase" THEN "result" ELSE "fig"

Stmt(op, nm, val) == [op |-> op, nm |-> nm, val |-> val]

FenceOpen == Stmt("fence_open", "", NoneV)        \* the line ```python
FenceClose == Stmt("fence_close", "", NoneV)      \* the line ```
Raise(kind) == Stmt("raise", kind, NoneV)

\* the two-tuple list [(1,2),(3,4)] and the empty list
TwoRows == List(<< <<1, 2>>, <<3, 4>> >>)
NoRows == List(<<>>)

ResultValues(v) == IF v = "supabase" THEN { TwoRows, NoRows } ELSE { Obj("figure") }

\* the kinds of exception a snippet raises: an Exception with a message, an
\* Exception whose str() is empty (raise ValueError(), a failed assert), and
\* a BaseException that is no Exception (SystemExit from exit())
RaiseKinds == { "msg", "nomsg", "exit" }

Stmts(v) ==
    { FenceOpen, FenceClose }
      \cup { Stmt("assign", Designated(v), val) : val \in ResultValues(v) }
      \cup { Stmt("global_assign", Designated(v), Obj("figure")) : x \in { v } \ { "supabase" } }
      \cup { Stmt("global_assign", Designated(v), TwoRows) : x \in { v } \cap { "supabase" } }
      \cup { Stmt("assign", "tmp", Obj("object")), Stmt("global_assign", "tmp", Obj("object")),
             Stmt("use", "tmp", NoneV) }
      \cup { Raise(k) : k \in RaiseKinds }

Snippets(v) == UNION { [1..n -> Stmts(v)] : n \in 0..MaxStmts }

\* the statements of the snippets of a session of several runs
SessionStmts(v) ==
    { Stmt("assign", "tmp", Obj("object")), Stmt("global_assign", "tmp", Obj("object")),
      Stmt("use", "tmp", NoneV), Raise("msg") }
      \cup { Stmt("assign", Designated(v), val) : val \in ResultValues(v) }

\* for the line-trimming variant the statements stand between two fence lines
SessionSnippets(v) ==
    LET bodies == UNION { [1..n -> SessionStmts(v)] : n \in 0..MaxSessionStmts } IN
    IF v = "supabase"
    THEN { << FenceOpen >> \o b \o << FenceClose >> : b \in bodies }
    ELSE bodies

\* what exec leaves behind: the two mappings and the exception it raised
Ran(g, l, fault) == [g |-> g, l |-> l, fault |-> fault]

RECURSIVE Steps(_, _, _)
Steps(c, g, l) ==
    IF c = <<>> THEN Ran(g, l, "none")
    ELSE LET st == Head(c) IN
         CASE st.op = "assign" -> Steps(Tail(c), g, [l EXCEPT ![st.nm] = st.val])
           [] st.op = "global_assign" -> Steps(Tail(c), [g EXCEPT ![st.nm] = st.val], l)
           [] st.op = "use" ->
                IF l[st.nm] # Unbound \/ g[st.nm] # Unbound
                THEN Steps(Tail(c), g, l)
                ELSE Ran(g, l, "msg")                       \* NameError
           [] st.op = "raise" -> Ran(g, l, st.nm)
           [] OTHER -> Ran(g, l, "msg")

\* exec(code, g, l)
Exec(c, g, l) ==
    IF \E i \in 1..Len(c) : c[i].op \in { "fence_open", "fence_close" }
    THEN Ran(g, l, "msg")                                   \* SyntaxError
    ELSE Steps(c, g, l)

\* a lookup that hands out the mapping's own mark for a missing key
get_raw(ns, n) == ns[n]

\* dict.get(n): None for a missing key
get(ns, n) == IF ns[n] = Unbound THEN NoneV ELSE ns[n]

\* bool(value) as `or` takes it
Truthy(val) == val # NoneV /\ val # NoRows

\* str(e)
ErrText(fault) == IF fault = "nomsg" THEN "" ELSE "message"
NoErr == "None"

NoRun ==
    [variant |-> "none", called |-> FALSE, fault |-> "none", result |-> NoneV,
     err |-> NoErr, msgs |-> {}, count |-> 0, escaped |-> FALSE]

\* one handler run:
\*   called:  exec was called;  fault: what exec raised, "none" if nothing
\*   result:  the value read from the designated variable, None if none was read
\*   err:     the diagnostic run_generated_code returned, NoErr for None
\*   msgs:    the messages rendered;  count: the number in "Returned n row(s)."
\*   escaped: an exception left the handler
Outcome(v, called, fault, result, err, msgs, count, escaped) ==
    [variant |-> v, called |-> called, fault |-> fault, result |-> result,
     err |-> err, msgs |-> msgs, count |-> count, escaped |-> escaped]

\* the names that the mappings of the last execution hold beside the pre-bound ones
BoundNames ==
    IF run.variant = "none" THEN {}
    ELSE { n \in NsNames : \/ exec_globals[n] # PreGlobal(run.variant, n)
                           \/ exec_locals[n] # PreLocal(run.variant, n) }

ExecFrame(s) ==
    /\ snippet' = s
    /\ earlier' = earlier \cup BoundNames
    /\ asked' = TRUE
    /\ UNCHANGED <<extractVars, marketVars, uiVars, buildVars, sanVars>>
    /\ UNCHANGED <<gates, variantVars, callVars, listVars>>

\* Visualisation.py lines 146-170 with run_generated_code, lines 86-112
VisualisationRun(s) ==
    LET v == "visualisation"
        info == { "Requesting generated code from model..." }
        e == Exec(s, NewGlobals(v), NewLocals(v))                        \* 93-107
        fig == IF Truthy(get(e.l, "fig")) THEN get(e.l, "fig")           \* 111
               ELSE get(e.g, "fig")
    IN  /\ ExecFrame(s)
        /\ exec_globals' = e.g
        /\ exec_locals' = e.l
        /\ run' =
             IF e.fault = "exit"                  \* not an Exception: 108 and 169 let it pass
             THEN Outcome(v, TRUE, e.fault, NoneV, NoErr, info, 0, TRUE)
             ELSE IF e.fault # "none"                                    \* 108-109
             THEN Outcome(v, TRUE, e.fault, NoneV, ErrText(e.fault),
                          info \cup (IF ErrText(e.fault) # ""            \* 150-157
                                     THEN { "Error executing generated code" }
                                     ELSE { "Generated code did not produce a fig object" }),
                          0, FALSE)
             ELSE Outcome(v, TRUE, "none", fig, NoErr,
                          info \cup (IF fig = NoneV                      \* 154-160
                                     THEN { "Generated code did not produce a fig object" }
                                     ELSE { "Visualization generated." }),
                          0, FALSE)

\* a length test that lets two lines through
long_enough_two(code_lines) == Len(code_lines) >= 2

\* SupabaseConnector.py line 158
long_enough(code_lines) == Len(code_lines) > 2

\* code_lines[1:] in place of code_lines[1:-1]
trimmed_head_only(code_lines) == SubSeq(code_lines, 2, Len(code_lines))

\* SupabaseConnector.py line 159: code_lines[1:-1]
trimmed(code_lines) == SubSeq(code_lines, 2, Len(code_lines) - 1)

\* SupabaseConnector.py lines 165-173
RenderResult(result) ==
    IF result.kind = "list"
    THEN (IF Len(result.rows) = 0 THEN { "Query returned 0 rows." }
          ELSE { "Returned row(s).", "dataframe" })
    ELSE IF result = NoneV THEN { "No 'result' variable returned." }
    ELSE { "result written" }

RowCount(result) ==
    IF result.kind = "list" THEN Len(result.rows) ELSE 0

\* SupabaseConnector.py lines 140-180, the model having answered with the lines s
SupabaseRun(s) ==
    LET v == "supabase" IN
    /\ ExecFrame(s)
    /\ IF s = <<>>                                                       \* 142-143
       THEN /\ run' = Outcome(v, FALSE, "none", NoneV, NoErr,
                              { "Model did not return code." }, 0, FALSE)
            /\ exec_globals' = EmptyNs
            /\ exec_locals' = EmptyNs
       ELSE IF ~long_enough(s)                                           \* 160-163
       THEN /\ run' = Outcome(v, FALSE, "none", get(NewLocals(v), "result"), NoErr,
                              { "Generated code is too short to skip first and last lines." }
                                 \cup RenderResult(get(NewLocals(v), "result")),
                              0, FALSE)
            /\ exec_globals' = NewGlobals(v)
            /\ exec_locals' = NewLocals(v)
       ELSE LET e == Exec(trimmed(s), NewGlobals(v), NewLocals(v))       \* 148-159
                result == get(e.l, "result")                             \* 163
            IN  /\ exec_globals' = e.g
                /\ exec_locals' = e.l
                /\ run' =
                     IF e.fault = "exit"          \* not an Exception: 174 and 178 let it pass
                     THEN Outcome(v, TRUE, e.fault, NoneV, NoErr, {}, 0, TRUE)
                     ELSE IF e.fault # "none"                            \* 174-176
                     THEN Outcome(v, TRUE, e.fault, NoneV, NoErr,
                                  { "Error while executing generated code:" }, 0, FALSE)
                     ELSE Outcome(v, TRUE, "none", result, NoErr, RenderResult(result),
                                  RowCount(result), FALSE)

\* 1_Workflow_Planner.py lines 53-57: the lines up to a bare closing fence
RECURSIVE UntilClose(_)
UntilClose(ls) ==
    IF ls = <<>> THEN <<>>
    ELSE IF Head(ls) = FenceClose THEN <<>>
    ELSE << Head(ls) >> \o UntilClose(Tail(ls))

\* 1_Workflow_Planner.py lines 50-60
code_to_exec(code_lines) ==
    IF Len(code_lines) >= 2 /\ code_lines[1].op \in { "fence_open", "fence_close" }
    THEN UntilClose(Tail(code_lines))
    ELSE code_lines

\* 1_Workflow_Planner.py lines 47-79, the model having answered with the lines s
PlannerRun(s) ==
    LET v == "planner"
        e == Exec(code_to_exec(s), NewGlobals(v), NewLocals(v))          \* 62-64
        fig == get(e.l, "fig")                                           \* 70
    IN  /\ ExecFrame(s)
        /\ exec_globals' = e.g
        /\ exec_locals' = e.l
        /\ run' =
             IF e.fault = "exit"                  \* not an Exception: 65 and 78 let it pass
             THEN Outcome(v, TRUE, e.fault, NoneV, NoErr, {}, 0, TRUE)
             ELSE IF e.fault # "none"                                    \* 65-68, 78-79
             THEN Outcome(v, TRUE, e.fault, NoneV, NoErr,
                          { "Error executing generated code", "Error generating diagram" },
                          0, FALSE)
             ELSE Outcome(v, TRUE, "none", fig, NoErr,
                          IF fig # NoneV THEN { "Generated Workflow Diagram" }      \* 71-77
                          ELSE { "No figure named 'fig' was created by generated code." },
                          0, FALSE)

ExecInit ==
    /\ snippet = <<>>
    /\ exec_globals = EmptyNs
    /\ exec_locals = EmptyNs
    /\ run = NoRun
    /\ earlier = {}
    /\ ExtractIdle
    /\ MarketIdle
    /\ UiIdle
    /\ BuildIdle
    /\ SanIdle
    /\ OtherIdle

\* one press of one of the three buttons, on any answer of the model
ExecNext ==
    \/ run.variant = "none" /\ \E s \in Snippets("visualisation") : VisualisationRun(s)
    \/ run.variant = "none" /\ \E s \in Snippets("supabase") : SupabaseRun(s)
    \/ run.variant = "none" /\ \E s \in Snippets("planner") : PlannerRun(s)

SpecExec == ExecInit /\ [][ExecNext]_vars

\* a session in which the buttons are pressed again and again
SessionNext ==
    \/ \E s \in SessionSnippets("visualisation") : VisualisationRun(s)
    \/ \E s \in SessionSnippets("supabase") : SupabaseRun(s)
    \/ \E s \in SessionSnippets("planner") : PlannerRun(s)

SpecSession == ExecInit /\ [][SessionNext]_vars

-----------------------------------------------------------------------------
(* C13 - C19: the executor *)

\* the message a variant renders for a snippet that raised
ExecErrorMsg(v) ==
    IF v = "supabase" THEN "Error while executing generated code:"
    ELSE "Error executing generated code"

\* the message a variant renders when the designated variable is not there
NoResultMsg(v) ==
    CASE v = "visualisation" -> "Generated code did not produce a fig object"
      [] v = "supabase" -> "No 'result' variable returned."
      [] v = "planner" -> "No figure named 'fig' was created by generated code."

\* C13: when the snippet raised during exec, the handler has no result, holds
\* a diagnostic (the error text run_generated_code returned, or the
\* execution-error message of an inline variant), and no exception left it.
C13_RaisingSnippetIsContained ==
    (run.called /\ run.fault # "none")
        => /\ ~run.escaped
           /\ run.result = NoneV
           /\ \/ run.variant = "visualisation" /\ run.err # NoErr
              \/ run.variant # "visualisation" /\ ExecErrorMsg(run.variant) \in run.msgs

\* C14: when the snippet ran to its end and bound the designated variable in
\* neither mapping, the result is None, no exception left the handler and no
\* error of execution or of the model call is rendered.
C14_NoResultSentinel ==
    (/\ run.called /\ run.fault = "none"
     /\ exec_locals[Designated(run.variant)] = Unbound
     /\ exec_globals[Designated(run.variant)] = Unbound)
        => /\ run.result = NoneV
           /\ run.err = NoErr
           /\ ~run.escaped
           /\ NoResultMsg(run.variant) \in run.msgs
           /\ ExecErrorMsg(run.variant) \notin run.msgs

\* a visualisation snippet that binds another name and uses it, and no fig
C14_Witness ==
    /\ run.variant = "visualisation" /\ run.called /\ run.fault = "none"
    /\ snippet = << Stmt("assign", "tmp", Obj("object")), Stmt("use", "tmp", NoneV) >>
    /\ exec_locals["tmp"] = Obj("object")
    /\ run.result = NoneV
    /\ run.msgs = { "Requesting generated code from model...",
                    "Generated code did not produce a fig object" }

\* C15: a snippet that raised an Exception is rendered with the
\* execution-error message and without the no-result message; a snippet that
\* ran to its end without a result is rendered without the execution-error
\* message.
C15_FailureAndNoResultDistinct ==
    run.called
        => /\ run.fault \in { "msg", "nomsg" }
                => /\ ExecErrorMsg(run.variant) \in run.msgs
                   /\ NoResultMsg(run.variant) \notin run.msgs
           /\ (run.fault = "none" /\ run.result = NoneV)
                => ExecErrorMsg(run.variant) \notin run.msgs

\* C16: when the snippet ran to its end with the designated variable bound in
\* the globals and not in the locals, the result is the value in the globals.
C16_FallsBackToGlobals ==
    (/\ run.called /\ run.fault = "none"
     /\ exec_locals[Designated(run.variant)] = Unbound
     /\ exec_globals[Designated(run.variant)] # Unbound)
        => run.result = exec_globals[Designated(run.variant)]

\* the statements exec was given in the last run
Executed ==
    CASE run.variant = "supabase" -> SubSeq(snippet, 2, Len(snippet) - 1)
      [] run.variant = "planner" ->
            IF Len(snippet) >= 2 /\ snippet[1].op \in { "fence_open", "fence_close" }
            THEN SubSeq(snippet, 2, Len(snippet))
            ELSE snippet
      [] OTHER -> snippet

\* C17: the mappings of every execution hold, beside the pre-bound objects,
\* only names that the snippet of this execution binds; and a snippet that
\* begins by reading a name that only earlier snippets bound gets a NameError.
C17_FreshNamespace ==
    run.called
        => /\ \A n \in NsNames :
                (\/ exec_globals[n] # PreGlobal(run.variant, n)
                 \/ exec_locals[n] # PreLocal(run.variant, n))
                    => \E i \in 1..Len(snippet) :
                          snippet[i].op \in { "assign", "global_assign" } /\ snippet[i].nm = n
           /\ (Executed # <<>> /\ Head(Executed).op = "use") => run.fault = "msg"

\* a snippet reads tmp, which a snippet of an earlier run bound, and fails
C17_Witness ==
    /\ run.called
    /\ "tmp" \in earlier
    /\ Executed = << Stmt("use", "tmp", NoneV) >>
    /\ run.fault = "msg"
    /\ exec_globals["tmp"] = Unbound /\ exec_locals["tmp"] = Unbound

\* C18: the line-trimming variant, given a snippet of one or two lines, does
\* not call exec and renders the length-based error; it calls exec exactly
\* for snippets of three or more lines.  (An empty answer is "Model did not
\* return code.", not a snippet.)
C18_ShortSnippetNotExecuted ==
    (run.variant = "supabase" /\ snippet # <<>>)
        => /\ Len(snippet) <= 2
                => /\ ~run.called
                   /\ "Generated code is too short to skip first and last lines." \in run.msgs
                   /\ exec_globals = NewGlobals("supabase")
                   /\ exec_locals = NewLocals("supabase")
           /\ run.called <=> Len(snippet) >= 3

\* a fenced block with nothing in it: two lines, not executed
C18_Witness ==
    /\ run.variant = "supabase"
    /\ snippet = << FenceOpen, FenceClose >>
    /\ ~run.called
    /\ "Generated code is too short to skip first and last lines." \in run.msgs

\* C19: the three-line fenced answer whose middle line binds result to
\* [(1,2),(3,4)] yields that list as the result and is rendered as 2 returned
\* rows with the table; and a result that is the empty list is rendered with
\* the "0 rows" message and neither the row count nor a table.
C19_RowsRendered ==
    run.variant = "supabase"
        => /\ snippet = << FenceOpen, Stmt("assign", "result", TwoRows), FenceClose >>
                => /\ run.result = List(<< <<1, 2>>, <<3, 4>> >>)
                   /\ run.msgs = { "Returned row(s).", "dataframe" }
                   /\ run.count = 2
           /\ (run.called /\ run.fault = "none" /\ run.result = List(<<>>))
                => run.msgs = { "Query returned 0 rows." }

\* the three-line answer has been run
C19_Witness ==
    /\ run.variant = "supabase"
    /\ snippet = << FenceOpen, Stmt("assign", "result", TwoRows), FenceClose >>
    /\ run.called /\ run.fault = "none"
    /\ exec_locals["result"] = TwoRows
    /\ run.count = 2

\* C25: once code has been generated in the session and no agent has been
\* saved yet, every script run of the Agent Builder in which Generate is not
\* pressed (a rerun for another widget, or the rerun after the Save callback)
\* offers the Save form, and the form's callback is bound to the generated code.
C25_SaveSurvivesReruns ==
    (/\ ui.page = "build" /\ ui.action \in { "rerun", "save" }
     /\ spc = "idle"
     /\ generated_code # Unset
     /\ ~agent_saved)
        => /\ form # NoForm
           /\ form = generated_code

\* the message a variant's enclosing handler renders for a failed model call
GenerationErrorMsg(v) ==
    CASE v = "visualisation" -> "Error calling model"
      [] v = "supabase" -> "Failed to generate code"
      [] v = "planner" -> "Error generating diagram"
      [] OTHER -> "none"

\* C24: an Exception the snippet raised is handled by the execution-error
\* handler only: the handler passes it on to no enclosing handler, so no
\* exception leaves the handler run and the message of the model-call or
\* generation error is not rendered for it.
C24_FaultHandledOnce ==
    (run.called /\ run.fault \notin { "none", "exit" })
        => /\ ~run.escaped
           /\ GenerationErrorMsg(run.variant) \notin run.msgs

-----------------------------------------------------------------------------
(***************************************************************************)
(* The model calls and what each page renders for their outcomes:          *)
(* Analyze Sentiment (agents/agent.py), Generate & Show App Code           *)
(* (pages/2_Build_Agent.py) and Generate Workflow Text                     *)
(* (pages/1_Workflow_Planner.py).  A rendered message is its Streamlit     *)
(* call, its fixed text and the text interpolated into it.                 *)
(***************************************************************************)
CallPages == { "agent", "build", "planner" }
Modes == { "network", "auth", "refusal" }

Msg(level, txt, detail) == [level |-> level, text |-> txt, detail |-> detail]

\* a failure mode the operator has not met on a page
NotSeen == { Msg("none", "", "") }

\* what generate_content does: it raises, str(e) naming the cause, or it answers
\* with a response: text, an empty text, no text, or no candidate at all
Raises == { [kind |-> "raise", detail |-> d] : d \in { "network", "auth" } }
Answers ==
    { [kind |-> "answer", detail |-> d] :
        d \in { "Positive", "Negative", "Neutral", "other", "empty", "missing",
                "no_candidates" } }
ModelAnswers == Raises \cup Answers

\* the keys the operator may have typed into agent.py's key field
Keys == { "missing", "invalid", "valid" }

\* the answers generate_content can give for a key
AnswersFor(key) ==
    IF key = "invalid" THEN { a \in Raises : a.detail = "auth" }
    ELSE { a \in ModelAnswers : a.detail # "auth" }

Refused(a) == a.kind = "answer" /\ a.detail \in { "empty", "missing", "no_candidates" }

\* the failure mode of a call, "none" when the model answered with text
ModeOf(key, a) ==
    IF key = "missing" THEN "auth"
    ELSE IF a.kind = "raise" THEN a.detail
    ELSE IF Refused(a) THEN "refusal"
    ELSE "none"

\* agents/agent.py lines 97-102
AnalysisError(detail) ==
    { Msg("error", "An error occurred during analysis:", detail),
      Msg("warning", "Please check the following:", ""),
      Msg("markdown", "Your Gemini API key might be incorrect, invalid, or expired.", ""),
      Msg("markdown", "Network connectivity issues.", ""),
      Msg("markdown", "The content of your text might violate Gemini's safety policies", "") }

\* agents/agent.py lines 36-102, user_text not empty
AnalyzeSentiment(key, a) ==
    IF key = "missing"                                                    \* 37-38
    THEN { Msg("error", "Please enter your Gemini API Key to proceed with the analysis.", "") }
    ELSE IF a.kind = "raise" THEN AnalysisError(a.detail)                 \* 66, 97
    ELSE IF a.detail = "no_candidates"                                    \* 72, 90-91
    THEN { Msg("error", "No valid response received from the Gemini model.", "") }
    ELSE IF a.detail = "missing"                  \* 75: no part, or a part whose text is None
    THEN AnalysisError("lookup")
    ELSE { Msg("subheader", "Results:", "") } \cup                        \* 78-89
         { CASE a.detail = "Positive" -> Msg("success", "Sentiment: Positive", "")
             [] a.detail = "Negative" -> Msg("error", "Sentiment: Negative", "")
             [] a.detail = "Neutral" -> Msg("info", "Sentiment: Neutral", "")
             [] OTHER -> Msg("warning", "Could not determine a clear sentiment.",
                             IF a.detail = "empty" THEN "" ELSE a.detail) }

\* utils/gemini_client.py lines 11-15: the page stops with this message
ClientInitError == { Msg("error", "Failed to initialize Gemini client:", "auth") }

\* (getattr(response, "text", "") or ""): the text of an answer, "" when there is none
TextOf(a) == IF Refused(a) THEN "" ELSE a.detail

\* pages/2_Build_Agent.py lines 68-137; write_ok: generated_app.py could be written
GenerateAppCode(key, a, write_ok) ==
    IF key = "missing" THEN ClientInitError                               \* line 14
    ELSE IF a.kind = "raise"                                              \* 73-75
    THEN { Msg("error", "Error generating app code:", a.detail) }
    ELSE { Msg("subheader", "Generated Code", ""), Msg("code", "", TextOf(a)) } \cup  \* 102-103
         IF write_ok
         THEN { Msg("success", "App saved as generated_app.py", ""),      \* 111-122
                Msg("markdown", "Running App...", "") }
         ELSE { Msg("error", "Error while saving or launching generated code:", "os") }

\* pages/1_Workflow_Planner.py lines 18-33, prompt not empty
GenerateWorkflowText(key, a) ==
    IF key = "missing" THEN ClientInitError                               \* line 13
    ELSE IF a.kind = "raise"                                              \* 32-33
    THEN { Msg("error", "Error generating workflow:", a.detail) }
    ELSE { Msg("subheader", "Proposed Agent Workflow", ""),               \* 29-31
           Msg("write", "", IF TextOf(a) = "" THEN "No content returned." ELSE TextOf(a)) }

UpstreamInit ==
    /\ upstream = [page |-> "none", mode |-> "none", msgs |-> {},
                   seen |-> [p \in CallPages |-> [m \in Modes |-> NotSeen]]]
    /\ ExtractIdle
    /\ MarketIdle
    /\ UiIdle
    /\ BuildIdle
    /\ SanIdle
    /\ ExecIdle
    /\ GateIdle
    /\ VariantIdle
    /\ ListIdle

\* one handled press on page p that rendered msgs for a call of failure mode m
Rendered(p, m, msgs) ==
    /\ upstream' = [page |-> p, mode |-> m, msgs |-> msgs,
                    seen |-> IF m = "none" THEN upstream.seen
                             ELSE [upstream.seen EXCEPT ![p][m] = msgs]]
    /\ UNCHANGED <<extractVars, marketVars, uiVars, buildVars, sanVars, execVars>>
    /\ UNCHANGED <<gateVars, variantVars, listVars>>

AnalyzePress ==
    \E key \in Keys : \E a \in AnswersFor(key) :
        Rendered("agent", ModeOf(key, a), AnalyzeSentiment(key, a))

BuildPress ==
    \E key \in Keys : \E a \in AnswersFor(key) : \E write_ok \in BOOLEAN :
        Rendered("build", ModeOf(key, a), GenerateAppCode(key, a, write_ok))

PlannerPress ==
    \E key \in Keys : \E a \in AnswersFor(key) :
        Rendered("planner", ModeOf(key, a), GenerateWorkflowText(key, a))

UpstreamNext ==
    \/ AnalyzePress
    \/ BuildPress
    \/ PlannerPress

SpecUpstream == UpstreamInit /\ [][UpstreamNext]_vars

\* the messages of a rendering that st.error rendered
ErrorsOf(msgs) == { m \in msgs : m.level = "error" }

\* C22: on every page that calls the model, any two of the failure modes
\* network error, authentication error and safety refusal that the operator
\* has met are each rendered with an error message, and the error messages
\* of the two differ.
C22_FailureModesDistinguished ==
    \A p \in CallPages : \A m1, m2 \in Modes :
        (/\ m1 # m2
         /\ upstream.seen[p][m1] # NotSeen
         /\ upstream.seen[p][m2] # NotSeen)
            => /\ ErrorsOf(upstream.seen[p][m1]) # {}
               /\ ErrorsOf(upstream.seen[p][m2]) # {}
               /\ ErrorsOf(upstream.seen[p][m1]) # ErrorsOf(upstream.seen[p][m2])

-----------------------------------------------------------------------------
(***************************************************************************)
(* The agent lists of the Multi-Agent page (agent_files, line 41) and of   *)
(* the Agent MarketPlace page (agents, line 127).  A file name is a        *)
(* sequence of tokens: the characters of its stem and, last, its suffix.   *)
(***************************************************************************)
MaxEntries == 3

PY == ".py"
TMP == ".py.tmp"
TXT == ".txt"
UPY == ".PY"

\* the order of the tokens as Python compares the strings they stand for
Rank(tok) ==
    CASE tok = "-" -> 1
      [] tok = UPY -> 2
      [] tok = PY -> 3
      [] tok = TMP -> 4
      [] tok = TXT -> 5
      [] tok = "a" -> 6
      [] OTHER -> 7

\* x < y on paths of one directory
RECURSIVE Less(_, _)
Less(x, y) ==
    IF y = <<>> THEN FALSE
    ELSE IF x = <<>> THEN TRUE
    ELSE IF Head(x) # Head(y) THEN Rank(Head(x)) < Rank(Head(y))
    ELSE Less(Tail(x), Tail(y))

ListDirs == { "agents", "marketplace" }
ListNames ==
    { << "a", PY >>, << "b", PY >>, << "a", "-", "b", PY >>, << PY >>,
      << "a", TMP >>, << "b", TXT >>, << "a" >>, << "b", UPY >> }
Kinds == { "file", "dir" }

DirEntries == [dir : ListDirs, name : ListNames, kind : Kinds]

\* what the two directories can hold: no two entries of a directory share a name
\* the sets of at most n entries
RECURSIVE UpTo(_)
UpTo(n) ==
    IF n = 0 THEN { {} }
    ELSE LET fewer == UpTo(n - 1)
         IN  fewer \cup
             { es \cup { e } :
                 es \in fewer,
                 e \in DirEntries }

\* two entries of one directory share a name
Clash(es) == \E e1, e2 \in es : e1.dir = e2.dir /\ e1.name = e2.name /\ e1 # e2

Directories == { es \in UpTo(MaxEntries) : ~Clash(es) }

\* AGENTS_DIR of a page
AGENTS_DIR(pg) == IF pg = "multi" THEN "agents" ELSE "marketplace"

\* AGENTS_DIR.glob("*.py"): the entries whose name ends in .py
glob(d) == { e \in entries : e.dir = d /\ e.name # <<>> /\ e.name[Len(e.name)] = PY }

\* p.is_file()
is_file(e) == e.kind = "file"

\* sorted(paths): ascending
RECURSIVE sorted(_)
sorted(ps) ==
    IF ps = {} THEN <<>>
    ELSE LET least == CHOOSE x \in ps : \A y \in ps : x = y \/ Less(x, y)
         IN  << least >> \o sorted(ps \ { least })

\* sorted([p for p in AGENTS_DIR.glob("*") if p.is_file()])
list_agents_any(pg) ==
    sorted({ e.name : e \in { g \in entries : g.dir = AGENTS_DIR(pg) /\ is_file(g) } })

\* sorted([p for p in AGENTS_DIR.glob("*.py") if p.is_file()])
list_agents(pg) == sorted({ e.name : e \in { g \in glob(AGENTS_DIR(pg)) : is_file(g) } })

NotListed == [page |-> "none", files |-> <<>>]

ListInit ==
    /\ entries \in Directories
    /\ listed = NotListed
    /\ ExtractIdle
    /\ MarketIdle
    /\ UiIdle
    /\ BuildIdle
    /\ SanIdle
    /\ ExecIdle
    /\ GateIdle
    /\ VariantIdle
    /\ CallIdle

ListFrame ==
    /\ UNCHANGED entries
    /\ UNCHANGED <<extractVars, marketVars, uiVars, buildVars, sanVars, execVars>>
    /\ UNCHANGED <<gateVars, variantVars, callVars>>

\* a script run of pages/4_Multi_Agent_System.py, line 41
MultiList ==
    /\ listed' = [page |-> "multi", files |-> list_agents("multi")]
    /\ ListFrame

\* a script run of pages/5_Agent_MarketPlace.py, line 127
MarketList ==
    /\ listed' = [page |-> "market", files |-> list_agents("market")]
    /\ ListFrame

ListNext ==
    \/ MultiList
    \/ MarketList

SpecList == ListInit /\ [][ListNext]_vars

\* C23: the list a page builds holds exactly the names of the regular files
\* of that page's agent directory that end in .py, each once, in ascending
\* order of file name, and no name of a temporary (.py.tmp) file.
C23_ListIsSortedPyFiles ==
    listed.page # "none" =>
        LET f == listed.files
            d == AGENTS_DIR(listed.page)
        IN  /\ { f[i] : i \in 1..Len(f) } =
                 { e.name : e \in { x \in entries : /\ x.dir = d
                                                    /\ x.kind = "file"
                                                    /\ x.name # <<>>
                                                    /\ x.name[Len(x.name)] = PY } }
            /\ \A i, j \in 1..Len(f) : i < j => Less(f[i], f[j])
            /\ \A i \in 1..Len(f) : f[i][Len(f[i])] # TMP

\* the MarketPlace lists a-b.py before a.py and leaves a.py.tmp out
C23_Witness ==
    /\ listed.page = "market"
    /\ entries = { [dir |-> "marketplace", name |-> << "a", PY >>, kind |-> "file"],
                   [dir |-> "marketplace", name |-> << "a", "-", "b", PY >>, kind |-> "file"],
                   [dir |-> "marketplace", name |-> << "a", TMP >>, kind |-> "file"] }
    /\ listed.files = << << "a", "-", "b", PY >>, << "a", PY >> >>

-----------------------------------------------------------------------------
(***************************************************************************)
(* The gates of Generate & Run (agents/SupabaseConnector.py lines 94-107)  *)
(* and the widgets and session keys they read.                             *)
(***************************************************************************)
\* the texts of the request field: empty, a blank, a request
Requests == { <<>>, << SP >>, << X >> }

\* a fresh session: no key, no connection, box not ticked, no request
GateInit ==
    /\ gates = [client |-> FALSE, connection |-> FALSE, cursor |-> FALSE,
                acknowledge |-> FALSE, op |-> <<>>]
    /\ asked = FALSE
    /\ snippet = <<>>
    /\ exec_globals = EmptyNs
    /\ exec_locals = EmptyNs
    /\ run = NoRun
    /\ earlier = {}
    /\ ExtractIdle
    /\ MarketIdle
    /\ UiIdle
    /\ BuildIdle
    /\ SanIdle
    /\ VariantIdle
    /\ CallIdle
    /\ ListIdle

\* a handler run, or a script run without the button, in which exec is not reached
NoExec(msgs, called_model) ==
    /\ run' = IF msgs = {} THEN NoRun
              ELSE Outcome("supabase", FALSE, "none", NoneV, NoErr, msgs, 0, FALSE)
    /\ asked' = called_model
    /\ snippet' = <<>>
    /\ exec_globals' = EmptyNs
    /\ exec_locals' = EmptyNs
    /\ earlier' = earlier \cup BoundNames
    /\ UNCHANGED <<extractVars, marketVars, uiVars, buildVars, sanVars>>
    /\ UNCHANGED <<variantVars, callVars, listVars>>

\* lines 17-29: a key is entered; ok: genai.Client(api_key=...) did not raise
EnterKey(ok) ==
    /\ gates' = [gates EXCEPT !.client = ok]
    /\ NoExec({}, FALSE)

\* lines 61-85: Connect; ok: psycopg2.connect and connection.cursor() did not raise
Connect(ok) ==
    /\ gates' = IF ok THEN [gates EXCEPT !.connection = TRUE, !.cursor = TRUE] ELSE gates
    /\ NoExec({}, FALSE)

\* lines 186-195: Close DB connection; ok: neither close() raised
CloseConnection(ok) ==
    /\ gates.connection
    /\ gates' = IF ok THEN [gates EXCEPT !.connection = FALSE, !.cursor = FALSE] ELSE gates
    /\ NoExec({}, FALSE)

\* line 95: the acknowledgement box is ticked or cleared
Acknowledge ==
    /\ gates' = [gates EXCEPT !.acknowledge = ~gates.acknowledge]
    /\ NoExec({}, FALSE)

\* line 92: the request text is edited
TypeRequest(req) ==
    /\ req # gates.op
    /\ gates' = [gates EXCEPT !.op = req]
    /\ NoExec({}, FALSE)

\* a chain of gates that leaves the acknowledgement out
GateMessageNoAck ==
    IF ~gates.client THEN { "Please enter a valid Gemini API key first." }
    ELSE IF ~gates.connection \/ ~gates.cursor THEN { "Please connect to the database first." }
    ELSE IF strip(gates.op) = <<>> THEN { "Please enter an operation." }
    ELSE {}

\* lines 99-106: the message of the first gate that fails, none if all hold
GateMessage ==
    IF ~gates.client THEN { "Please enter a valid Gemini API key first." }
    ELSE IF ~gates.connection \/ ~gates.cursor THEN { "Please connect to the database first." }
    ELSE IF ~gates.acknowledge THEN { "Please confirm the safety checkbox before executing." }
    ELSE IF strip(gates.op) = <<>> THEN { "Please enter an operation." }
    ELSE {}

\* lines 97-106: Generate & Run pressed, a gate fails
GenerateAndRunRefused ==
    /\ GateMessage # {}
    /\ UNCHANGED gates
    /\ NoExec(GateMessage, FALSE)

\* lines 134-139, 178-180: all gates hold, generate_content raises
GenerateAndRunNoAnswer ==
    /\ GateMessage = {}
    /\ UNCHANGED gates
    /\ NoExec({ "Failed to generate code" }, TRUE)

\* lines 134-177: all gates hold, the model answers with the lines s
GenerateAndRun ==
    /\ GateMessage = {}
    /\ \E s \in SessionSnippets("supabase") \cup { <<>> } : SupabaseRun(s)

GateNext ==
    \/ \E ok \in BOOLEAN : EnterKey(ok)
    \/ \E ok \in BOOLEAN : Connect(ok)
    \/ \E ok \in BOOLEAN : CloseConnection(ok)
    \/ Acknowledge
    \/ \E req \in Requests : TypeRequest(req)
    \/ GenerateAndRunRefused
    \/ GenerateAndRunNoAnswer
    \/ GenerateAndRun

SpecGate == GateInit /\ [][GateNext]_vars

\* C26: a handler run of Generate & Run in which the model was called or
\* exec was called had every gate open: the client is configured, connection
\* and cursor are in the session, the acknowledgement box is ticked and the
\* request text is not blank.
C26_GatesBeforeExec ==
    (run.variant = "supabase" /\ (asked \/ run.called))
        => /\ gates.client
           /\ gates.connection /\ gates.cursor
           /\ gates.acknowledge
           /\ strip(gates.op) # <<>>

\* with every gate open the generated code was executed and returned two rows
C26_Witness ==
    /\ run.variant = "supabase" /\ run.called /\ asked
    /\ gates = [client |-> TRUE, connection |-> TRUE, cursor |-> TRUE,
                acknowledge |-> TRUE, op |-> << X >>]
    /\ run.result = TwoRows

-----------------------------------------------------------------------------
(***************************************************************************)
(* The inline Code Extractor variants of the Workflow Planner, Agent       *)
(* Builder and Multi-Agent pages, run on the text extract_code is run on.  *)
(***************************************************************************)
\* 1_Workflow_Planner.py lines 53-57: the lines up to a line that is a bare fence
RECURSIVE InnerLines(_)
InnerLines(ls) ==
    IF ls = <<>> THEN <<>>
    ELSE IF strip(Head(ls)) = << FENCE >> THEN <<>>
    ELSE << Head(ls) >> \o InnerLines(Tail(ls))

\* 1_Workflow_Planner.py lines 50-60: code_to_exec from the text of the response
PlannerExtract(t) ==
    LET code_lines == splitlines(t) IN
    IF Len(code_lines) >= 2 /\ startswith(strip(code_lines[1]), << FENCE >>)
    THEN join(InnerLines(Tail(code_lines)))
    ELSE t

\* 2_Build_Agent.py lines 77-91: cleaned_code from the text of the response
BuildVariant(t) == BuildExtract(strip(t))

\* 4_Multi_Agent_System.py lines 127, 137-160: cleaned_code from the text of the response
MultiVariant(t) ==
    LET raw == strip(t) IN
    IF raw # <<>> THEN MultiExtract(raw) ELSE Template

VariantInit ==
    /\ text \in Texts
    /\ code = NotRun
    /\ xpc = "input"
    /\ inline = [planner |-> <<>>, build |-> <<>>, multi |-> <<>>]
    /\ MarketIdle
    /\ UiIdle
    /\ BuildIdle
    /\ SanIdle
    /\ ExecIdle
    /\ GateIdle
    /\ CallIdle
    /\ ListIdle

\* the same model text given to extract_code and to each page's inline extractor
ExtractAll ==
    /\ xpc = "input"
    /\ code' = extract_code(text)
    /\ inline' = [planner |-> PlannerExtract(text),
                  build |-> BuildVariant(text),
                  multi |-> MultiVariant(text)]
    /\ xpc' = "done"
    /\ UNCHANGED text
    /\ UNCHANGED <<marketVars, uiVars, buildVars, sanVars, execVars>>
    /\ UNCHANGED <<gateVars, callVars, listVars>>

SpecVariants == VariantInit /\ [][ExtractAll]_vars

\* C27: for every raw model text the inline extractors of the Workflow
\* Planner, the Agent Builder and the Multi-Agent page give the snippet that
\* extract_code gives (the Multi-Agent page for a text that is not blank,
\* where it extracts at all).
C27_VariantsAgree ==
    xpc = "done" =>
        /\ inline.planner = code
        /\ inline.build = code
        /\ strip(text) # <<>> => inline.multi = code

-----------------------------------------------------------------------------
(* Save on the Agent Builder, then Run on the Agent MarketPlace *)

\* 5_Agent_MarketPlace.py lines 17 and 127 on the files of the working
\* directory: the paths of the regular .py files of ./marketplace
market_agents ==
    { path \in DOMAIN fs : /\ path[1] = AGENTS_DIR("market")
                           /\ path[3] = PY
                           /\ Exists(path) }

\* C30: the file a successful Save has written is in the list of the Agent
\* MarketPlace, the page that offers Run and Stop.
C30_SavedAgentIsListed ==
    agent_saved => FinalPath(agent_saved_path) \in market_agents

====
